---- MODULE Spec2Model ----
(***************************************************************************)
(* BuildMate: the roadmap task graph of one project.                       *)
(*                                                                         *)
(* A roadmap is generated by the create-project route from the text an     *)
(* external model returns, saved by the home page as one project document, *)
(* and then changed only by toggleTaskDone of the project page, which      *)
(* works on the copy of the document the page last received from its       *)
(* snapshot subscription and writes roadmap and progress back.             *)
(***************************************************************************)
EXTENDS Integers, Sequences, FiniteSets, TLC

(***************************************************************************)
(* Bounds of the model.                                                    *)
(***************************************************************************)
\* milestones in a roadmap the external model returns
MaxMilestones == 2
\* tasks in the whole of such a roadmap
MaxTotalTasks == 3
\* tasks of the roadmaps the progress computation is applied to on its own
MaxProgressTasks == 200

\* browser tabs that have the project page open
Tabs == {"tabA", "tabB"}

\* absent values of the program: a document that does not exist, React state
\* that is still null, a member an object does not have; and the number 0 / 0
NoDoc == [absent |-> "document"]
Null == [absent |-> "null"]
Undefined == [absent |-> "undefined"]
NaN == "NaN"

(***************************************************************************)
(* Task and Milestone of the project page, reduced to the fields the       *)
(* roadmap logic reads: m1, m2, ... and t1, t2, ... are the numbers 1, 2.  *)
(***************************************************************************)
Task(id, done, locked) == [id |-> id, done |-> done, locked |-> locked]

Milestone(id, tasks) == [id |-> id, tasks |-> tasks]

RECURSIVE SumSeq(_)
SumSeq(s) == IF s = <<>> THEN 0 ELSE Head(s) + SumSeq(Tail(s))

\* the positions <<milestone index, task index>> of a milestones array in the
\* order the nested for-loops of the page visit them
RECURSIVE GlobalOrderFrom(_, _)
GlobalOrderFrom(milestones, i) ==
    IF i > Len(milestones) THEN <<>>
    ELSE [j \in 1..Len(milestones[i].tasks) |-> <<i, j>>]
         \o GlobalOrderFrom(milestones, i + 1)

GlobalOrder(milestones) == GlobalOrderFrom(milestones, 1)

TaskAt(milestones, pos) == milestones[pos[1]].tasks[pos[2]]

\* the positions of all tasks of the roadmap
Positions(milestones) ==
    {GlobalOrder(milestones)[k] : k \in 1..Len(GlobalOrder(milestones))}

(***************************************************************************)
(* Math.round((completedTasks / totalTasks) * 100) in IEEE-754 binary64.   *)
(* The quotient is rounded to 53 significant bits, the product with 100 is *)
(* rounded to 53 bits again, and Math.round takes floor(x + 0.5).  The 53  *)
(* bits are held in three limbs of 17, 18 and 18 bits.                     *)
(***************************************************************************)
Limb == 262144

RECURSIVE Pow2(_)
Pow2(n) == IF n = 0 THEN 1 ELSE 2 * Pow2(n - 1)

\* least e >= 0 with 2^e * c >= t, for 0 < c <= t
RECURSIVE Exponent(_, _, _)
Exponent(c, t, e) == IF c >= t THEN e ELSE Exponent(2 * c, t, e + 1)

\* <<m2, m1, m0>> + 1
LimbsInc(m) ==
    IF m[3] + 1 < Limb THEN <<m[1], m[2], m[3] + 1>>
    ELSE IF m[2] + 1 < Limb THEN <<m[1], m[2] + 1, 0>>
    ELSE <<m[1] + 1, 0, 0>>

\* round to nearest, ties to even: rem is what the division left, half and
\* whole in the same unit
RoundUp(rem2, whole, odd) == rem2 > whole \/ (rem2 = whole /\ odd)

\* c / t as a double: <<limbs of the 53-bit significand, e>>, value
\* significand * 2^(-e-52)
DoubleDiv(c, t) ==
    LET e == Exponent(c, t, 0)
        c1 == c * Pow2(e)
        n2 == c1 * 65536
        m2 == n2 \div t
        r2 == n2 % t
        m1 == (r2 * Limb) \div t
        r1 == (r2 * Limb) % t
        m0 == (r1 * Limb) \div t
        r0 == (r1 * Limb) % t
        m == <<m2, m1, m0>>
    IN <<IF RoundUp(2 * r0, t, m0 % 2 = 1) THEN LimbsInc(m) ELSE m, e>>

\* significand * 100, exact, as limbs (the top limb is not reduced)
LimbsTimes100(m) ==
    LET p0 == m[3] * 100
        p1 == m[2] * 100 + (p0 \div Limb)
        p2 == m[1] * 100 + (p1 \div Limb)
    IN <<p2, p1 % Limb, p0 % Limb>>

\* the product rounded to 53 bits: its low k bits cleared, k = 6 below 2^59
\* and 7 from there on
DoubleRound53(p) ==
    LET k == IF p[1] < 8388608 THEN 6 ELSE 7
        unit == Pow2(k)
        low == p[3] % unit
        kept == <<p[1], p[2], p[3] - low>>
        odd == (kept[3] \div unit) % 2 = 1
        up == RoundUp(2 * low, unit, odd)
        q0 == kept[3] + (IF up THEN unit ELSE 0)
        q1 == kept[2] + (q0 \div Limb)
        q2 == kept[1] + (q1 \div Limb)
    IN <<q2, q1 % Limb, q0 % Limb>>

\* Math.round(x) = floor((floor(2x) + 1) / 2) of x = q * 2^(-e-52)
MathRound(q, e) == ((q[1] \div Pow2(e + 15)) + 1) \div 2

ProgressPercent(completedTasks, totalTasks) ==
    IF totalTasks = 0 THEN NaN
    ELSE IF completedTasks = 0 THEN 0
    ELSE LET d == DoubleDiv(completedTasks, totalTasks)
         IN MathRound(DoubleRound53(LimbsTimes100(d[1])), d[2])

\* lines 153-163: the counting loops and the percentage
CalculateProgress(milestones) ==
    LET order == GlobalOrder(milestones)
        totalTasks == Len(order)
        completedTasks ==
            Cardinality({k \in 1..Len(order) : TaskAt(milestones, order[k]).done})
    IN [completedTasks |-> completedTasks,
        totalTasks |-> totalTasks,
        progressPercent |-> ProgressPercent(completedTasks, totalTasks)]


(***************************************************************************)
(* What the external model can answer.  The call fails, or returns text:   *)
(* empty, not JSON, or a JSON object that has no milestones member or has  *)
(* an array of milestones.  The model is asked for sequential ids, the     *)
(* first task unlocked and nothing done, and is not bound to comply: the   *)
(* answers follow the instruction or depart from it in ids or in flags.    *)
(***************************************************************************)
IdSchemes == {"sequential", "restart", "sameTaskId"}
LockSchemes == {"firstOnly", "allLocked", "allUnlocked", "lastUnlocked"}
DoneSchemes == {"noneDone", "lastDone"}

\* the task counts of the milestones: every sequence of at most MaxMilestones
\* counts that add up to at most MaxTotalTasks
Shapes ==
    {shape \in UNION {[1..n -> 0..MaxTotalTasks] : n \in 0..MaxMilestones} :
        SumSeq(shape) <= MaxTotalTasks}

\* tasks in the milestones before milestone i
RECURSIVE TasksBefore(_, _)
TasksBefore(shape, i) == IF i <= 1 THEN 0 ELSE shape[i - 1] + TasksBefore(shape, i - 1)

ModelTask(shape, ids, locks, dones, i, j) ==
    LET g == TasksBefore(shape, i) + j
        total == SumSeq(shape)
    IN Task(CASE ids = "restart" -> j
              [] ids = "sameTaskId" -> 1
              [] OTHER -> g,
            dones = "lastDone" /\ g = total,
            CASE locks = "firstOnly" -> g # 1
              [] locks = "allLocked" -> TRUE
              [] locks = "allUnlocked" -> FALSE
              [] OTHER -> g # total)

ModelRoadmap(shape, ids, locks, dones) ==
    [milestones |->
        [i \in 1..Len(shape) |->
            Milestone(i,
                      [j \in 1..shape[i] |-> ModelTask(shape, ids, locks, dones, i, j)])]]

\* an answer departs from what the prompt asks for in ids, in locks or in
\* done flags, in one of them at a time
Answers ==
    {x \in IdSchemes \X LockSchemes \X DoneSchemes :
        \/ x[2] = "firstOnly" /\ x[3] = "noneDone"
        \/ x[1] = "sequential" /\ x[3] = "noneDone"
        \/ x[1] = "sequential" /\ x[2] = "firstOnly"}

ModelRoadmaps ==
    {ModelRoadmap(shape, x[1], x[2], x[3]) : shape \in Shapes, x \in Answers}

\* what JSON.parse returns for the text null
JsonNull == [json |-> "null"]

ModelOutcomes ==
    {[kind |-> "throws"], [kind |-> "empty"], [kind |-> "notJson"],
     [kind |-> "json", value |-> JsonNull],
     [kind |-> "json", value |-> [other |-> "member"]]}
    \cup {[kind |-> "json", value |-> r] : r \in ModelRoadmaps}

(***************************************************************************)
(* The create-project route.  Both versions in the repository first reject *)
(* a request without project, uid or profile, then call the model once.    *)
(***************************************************************************)
\* an error body without a details member
NoDetails == "no details"

ErrorResponse(status, error, details) ==
    [status |-> status, error |-> error, details |-> details]

OkResponse(projectData) == [status |-> 200, projectData |-> projectData]

\* roadmap.milestones is not undefined
HasMilestones(roadmap) == "milestones" \in DOMAIN roadmap

HasFirstTask(roadmap) ==
    /\ HasMilestones(roadmap)
    /\ Len(roadmap.milestones) > 0
    /\ Len(roadmap.milestones[1].tasks) > 0

\* "Unlock first task": roadmap.milestones[0].tasks[0].locked = false
UnlockFirstTask(roadmap) ==
    [roadmap EXCEPT !.milestones[1].tasks[1].locked = FALSE]

\* "Calculate total tasks"
TotalTasks(roadmap) ==
    IF ~HasMilestones(roadmap) THEN 0
    ELSE SumSeq([i \in 1..Len(roadmap.milestones) |-> Len(roadmap.milestones[i].tasks)])

ProjectData(roadmap, totalTasks) ==
    [roadmap |-> roadmap,
     progress |-> [completedTasks |-> 0, totalTasks |-> totalTasks, progressPercent |-> 0]]

\* error.message of what the one catch block of the route catches
ErrorMessage(outcome) ==
    CASE outcome.kind = "throws" -> "model error"
      [] outcome.kind = "empty" -> "Unexpected end of JSON input"
      [] outcome.kind = "notJson" -> "Unexpected token"
      [] OTHER -> "Cannot read properties of null"

\* src/app/api/create-project/route.ts: one try block around everything
POST(hasFields, outcome) ==
    IF ~hasFields THEN ErrorResponse(400, "Missing required fields", NoDetails)
    ELSE IF outcome.kind # "json" \/ outcome.value = JsonNull
    THEN ErrorResponse(500, "Failed to create project", ErrorMessage(outcome))
    ELSE LET parsed == outcome.value
             roadmap == IF HasFirstTask(parsed) THEN UnlockFirstTask(parsed) ELSE parsed
         IN OkResponse(ProjectData(roadmap, TotalTasks(roadmap)))

\* the later version of the route: each stage answers for itself
POSTValidating(hasFields, hasKey, outcome) ==
    IF ~hasFields THEN ErrorResponse(400, "Missing required fields", "fields")
    ELSE IF ~hasKey
    THEN ErrorResponse(500, "Server configuration error: AI service not configured",
                       "Missing GEMINI_API_KEY environment variable")
    ELSE IF outcome.kind = "throws"
    THEN ErrorResponse(500, "AI service error", "model error")
    ELSE IF outcome.kind = "empty"
    THEN ErrorResponse(500, "AI returned empty response",
                       "The AI model did not generate any content")
    ELSE IF outcome.kind = "notJson"
    THEN ErrorResponse(500, "AI returned invalid JSON format", "Parse error: Unexpected token")
    ELSE LET parsed == outcome.value
         IN IF parsed = JsonNull
            THEN ErrorResponse(500, "Failed to create project", ErrorMessage(outcome))
            ELSE IF ~HasMilestones(parsed) \/ Len(parsed.milestones) = 0
            THEN ErrorResponse(500, "Invalid roadmap structure",
                               "Missing or empty milestones array")
            ELSE IF ~HasFirstTask(parsed)
            THEN ErrorResponse(500, "Invalid roadmap structure",
                               "First milestone has no tasks")
            ELSE LET roadmap == UnlockFirstTask(parsed)
                     totalTasks == TotalTasks(roadmap)
                 IN IF totalTasks = 0
                    THEN ErrorResponse(500, "Invalid roadmap",
                                       "No tasks generated across all milestones")
                    ELSE OkResponse(ProjectData(roadmap, totalTasks))

Routes == {"route", "validating"}

\* a route that calls the model again when the call failed
GenerateContentCallsRetrying(route, hasFields, hasKey, outcome) ==
    IF ~hasFields \/ (route = "validating" /\ ~hasKey) THEN 0
    ELSE IF outcome.kind = "throws" THEN 2
    ELSE 1

\* how often a request runs model.generateContent: the one call, in no loop,
\* that follows the early returns, whatever the call's outcome
GenerateContentCalls(route, hasFields, hasKey, outcome) ==
    IF ~hasFields \/ (route = "validating" /\ ~hasKey) THEN 0
    ELSE 1

CreateProject(route, hasFields, hasKey, outcome) ==
    IF route = "route" THEN POST(hasFields, outcome)
    ELSE POSTValidating(hasFields, hasKey, outcome)

(***************************************************************************)
(* The model's text, as the routes clean and parse it.  A text is a        *)
(* sequence of characters; LF is the newline, SP the space, QUOTE the       *)
(* double quote and TICK the backtick.  JSON is reduced to the number 1,   *)
(* the empty object, arrays of at most one element and strings without     *)
(* escapes, with whitespace around every value.                            *)
(***************************************************************************)
\* characters in a JSON text the model wraps in fences
MaxTextLen == 4

Whitespace == {"LF", "SP"}

JsonChars == {"{", "}", "[", "]", "1", "QUOTE", "TICK"} \cup Whitespace

Backticks == <<"TICK", "TICK", "TICK">>

JsonFence == Backticks \o <<"j", "s", "o", "n">>

\* String.prototype.trim
RECURSIVE TrimStart(_)
TrimStart(text) ==
    IF text # <<>> /\ Head(text) \in Whitespace THEN TrimStart(Tail(text)) ELSE text

RECURSIVE TrimEnd(_)
TrimEnd(text) ==
    IF text # <<>> /\ text[Len(text)] \in Whitespace
    THEN TrimEnd(SubSeq(text, 1, Len(text) - 1))
    ELSE text

Trim(text) == TrimEnd(TrimStart(text))

\* String.prototype.startsWith
StartsWith(text, prefix) ==
    Len(text) >= Len(prefix) /\ SubSeq(text, 1, Len(prefix)) = prefix

EndsWith(text, suffix) ==
    Len(text) >= Len(suffix)
        /\ SubSeq(text, Len(text) - Len(suffix) + 1, Len(text)) = suffix

\* text.replace with a pattern anchored at the start of the text
ReplaceAtStart(text, prefix) ==
    IF StartsWith(text, prefix) THEN SubSeq(text, Len(prefix) + 1, Len(text)) ELSE text

\* text.replace with a pattern anchored at the end of the text
ReplaceAtEnd(text, suffix) ==
    IF EndsWith(text, suffix) THEN SubSeq(text, 1, Len(text) - Len(suffix)) ELSE text

\* a cleaning that knows the json fence only
CleanTextJsonFenceOnly(responseText) ==
    LET trimmed == Trim(responseText)
    IN IF StartsWith(trimmed, JsonFence)
       THEN ReplaceAtEnd(ReplaceAtStart(trimmed, JsonFence \o <<"LF">>),
                         <<"LF">> \o Backticks)
       ELSE trimmed

\* route.ts lines 74-79, part_001 lines 161-166: cleanedText
CleanText(responseText) ==
    LET trimmed == Trim(responseText)
    IN IF StartsWith(trimmed, JsonFence)
       THEN ReplaceAtEnd(ReplaceAtStart(trimmed, JsonFence \o <<"LF">>),
                         <<"LF">> \o Backticks)
       ELSE IF StartsWith(trimmed, Backticks)
       THEN ReplaceAtEnd(ReplaceAtStart(trimmed, Backticks \o <<"LF">>),
                         <<"LF">> \o Backticks)
       ELSE trimmed

\* what JSON.parse throws
SyntaxError == [type |-> "SyntaxError"]

\* JSON.parse: whitespace around a value is skipped; a string holds no quote
\* and no raw newline
RECURSIVE JsonParse(_)
JsonParse(text) ==
    LET t == Trim(text)
        inner == SubSeq(t, 2, Len(t) - 1)
    IN IF t = <<"1">> THEN [type |-> "number", number |-> 1]
       ELSE IF t = <<"{", "}">> THEN [type |-> "object"]
       ELSE IF Len(t) >= 2 /\ t[1] = "QUOTE" /\ t[Len(t)] = "QUOTE"
       THEN IF \E k \in 1..Len(inner) : inner[k] \in {"QUOTE", "LF"}
            THEN SyntaxError
            ELSE [type |-> "string", chars |-> inner]
       ELSE IF Len(t) >= 2 /\ t[1] = "[" /\ t[Len(t)] = "]"
       THEN IF Trim(inner) = <<>> THEN [type |-> "array", items |-> <<>>]
            ELSE IF JsonParse(inner) = SyntaxError THEN SyntaxError
            ELSE [type |-> "array", items |-> <<JsonParse(inner)>>]
       ELSE SyntaxError

\* the JSON texts of at most MaxTextLen characters
JsonTexts ==
    {text \in UNION {[1..n -> JsonChars] : n \in 1..MaxTextLen} :
        JsonParse(text) # SyntaxError}

\* the opening fences a model puts around its JSON
Fences == {JsonFence, Backticks}

\* text between an opening fence and the closing one, each on its own line
Fenced(fence, text) == fence \o <<"LF">> \o text \o <<"LF">> \o Backticks

(***************************************************************************)
(* State.                                                                  *)
(***************************************************************************)
VARIABLES
    doc,        \* the project document in the store, or NoDoc
    project,    \* per tab: the page's project state, or Null
    lastOp,     \* the handler that made the last step, with its arguments
    progressIn, \* the roadmap a progress computation is applied to
    progressOut, \* what it computed
    jsonText,     \* a JSON text the model wraps in fences
    responseText, \* the model's text: jsonText between fences
    cleanedText,  \* what the fence stripping makes of responseText
    generated,    \* history: the project data as it was added to the store
    everDone,     \* history: the tasks, by global index, ever stored as done
    chat          \* per tab: the chat state of the page

vars == <<doc, project, lastOp, progressIn, progressOut, jsonText, responseText, cleanedText,
          generated, everDone, chat>>

\* global indexes of the tasks a stored document holds as done
DoneIn(stored) ==
    IF "roadmap" \notin DOMAIN stored \/ ~HasMilestones(stored.roadmap) THEN {}
    ELSE LET milestones == stored.roadmap.milestones
             order == GlobalOrder(milestones)
         IN {k \in 1..Len(order) : TaskAt(milestones, order[k]).done}

\* lines 46-49: the chat of a page that has just been mounted
NoRequest == [absent |-> "request"]

NoChat ==
    [chatInput |-> <<>>, chatLoading |-> FALSE, chatMessages |-> 0, inFlight |-> 0,
     closure |-> [chatInput |-> <<>>, chatLoading |-> FALSE], request |-> NoRequest]

Init ==
    /\ doc = NoDoc
    /\ project = [t \in Tabs |-> Null]
    /\ lastOp = [op |-> "none"]
    /\ progressIn = Null
    /\ progressOut = Null
    /\ jsonText = Null
    /\ responseText = Null
    /\ cleanedText = Null
    /\ generated = Null
    /\ everDone = {}
    /\ chat = [t \in Tabs |-> NoChat]

\* data.projectData of a response body
ProjectDataOf(response) ==
    IF "projectData" \in DOMAIN response THEN response.projectData ELSE Undefined

\* a page that adds whatever the response carries
SavesAnyResponse(response) == TRUE

\* lines 215-245: the response is ok and carries projectData
Saves(response) == response.status = 200 /\ ProjectDataOf(response) # Undefined

\* home page, handleSelectProject: the request, and addDoc of projectData
\* only when the response is ok and carries it
handleSelectProject(route, hasProfile, hasKey, outcome) ==
    /\ doc = NoDoc
    /\ LET response == CreateProject(route, hasProfile, hasKey, outcome)
           saved == Saves(response)
       IN /\ doc' = IF saved THEN ProjectDataOf(response) ELSE doc
          /\ generated' = IF saved THEN ProjectDataOf(response) ELSE generated
          /\ everDone' = IF saved THEN DoneIn(ProjectDataOf(response)) ELSE everDone
          /\ lastOp' = [op |-> "create", route |-> route, outcome |-> outcome.kind,
                        hasFields |-> hasProfile,
                        parsed |-> IF outcome.kind = "json" THEN outcome.value ELSE Undefined,
                        modelCalls |-> GenerateContentCalls(route, hasProfile, hasKey, outcome),
                        response |-> IF "projectData" \in DOMAIN response
                                     THEN [status |-> response.status]
                                     ELSE response,
                        wrote |-> saved]
    /\ UNCHANGED <<project, progressIn, progressOut, jsonText, responseText, cleanedText, chat>>

\* project page, the onSnapshot callback: setProject with the stored document
onSnapshot(tab) ==
    /\ doc # NoDoc
    /\ project' = [project EXCEPT ![tab] = doc]
    /\ lastOp' = [op |-> "snapshot", tab |-> tab]
    /\ UNCHANGED <<doc, progressIn, progressOut, jsonText, responseText, cleanedText,
                   generated, everDone, chat>>

(***************************************************************************)
(* toggleTaskDone of the project page.                                     *)
(***************************************************************************)
\* a comparison of the task id alone
MatchesTaskIdOnly(milestones, pos, milestoneId, taskId) ==
    TaskAt(milestones, pos).id = taskId

\* line 94: milestone.id === milestoneId && task.id === taskId
Matches(milestones, pos, milestoneId, taskId) ==
    /\ milestones[pos[1]].id = milestoneId
    /\ TaskAt(milestones, pos).id = taskId

\* lines 90-100: the first task, in loop order, with both ids; its index in
\* the global order, 0 when there is none
RECURSIVE FindFrom(_, _, _, _, _)
FindFrom(milestones, order, milestoneId, taskId, k) ==
    IF k > Len(order) THEN 0
    ELSE IF Matches(milestones, order[k], milestoneId, taskId) THEN k
    ELSE FindFrom(milestones, order, milestoneId, taskId, k + 1)

FindCurrentTask(milestones, milestoneId, taskId) ==
    FindFrom(milestones, GlobalOrder(milestones), milestoneId, taskId, 1)

\* a map that looks at the task id alone
FlipDoneInEveryMilestone(milestones, milestoneId, taskId) ==
    [i \in 1..Len(milestones) |->
        [milestones[i] EXCEPT !.tasks =
            [j \in 1..Len(milestones[i].tasks) |->
                IF milestones[i].tasks[j].id = taskId
                THEN [milestones[i].tasks[j] EXCEPT !.done = ~milestones[i].tasks[j].done]
                ELSE milestones[i].tasks[j]]]]

\* lines 106-119: the nested map that flips done
FlipDone(milestones, milestoneId, taskId) ==
    [i \in 1..Len(milestones) |->
        IF milestones[i].id = milestoneId
        THEN [milestones[i] EXCEPT !.tasks =
                [j \in 1..Len(milestones[i].tasks) |->
                    IF milestones[i].tasks[j].id = taskId
                    THEN [milestones[i].tasks[j] EXCEPT !.done = ~milestones[i].tasks[j].done]
                    ELSE milestones[i].tasks[j]]]
        ELSE milestones[i]]

\* a scan that stops at the first locked task after the current one, done or not
RECURSIVE ScanNextIgnoringDone(_, _, _, _, _, _)
ScanNextIgnoringDone(milestones, order, milestoneId, taskId, k, foundCurrent) ==
    IF k > Len(order) THEN 0
    ELSE IF foundCurrent /\ TaskAt(milestones, order[k]).locked THEN k
    ELSE ScanNextIgnoringDone(milestones, order, milestoneId, taskId, k + 1,
                              foundCurrent \/ Matches(milestones, order[k], milestoneId, taskId))

\* lines 123-137: the scan for the next task, foundCurrent carried along; the
\* index in the global order of the task it stops at, 0 when it ends without
RECURSIVE ScanNext(_, _, _, _, _, _)
ScanNext(milestones, order, milestoneId, taskId, k, foundCurrent) ==
    IF k > Len(order) THEN 0
    ELSE LET task == TaskAt(milestones, order[k])
         IN IF foundCurrent /\ task.locked /\ ~task.done THEN k
            ELSE ScanNext(milestones, order, milestoneId, taskId, k + 1,
                          foundCurrent \/ Matches(milestones, order[k], milestoneId, taskId))

FindNextTask(milestones, milestoneId, taskId) ==
    ScanNext(milestones, GlobalOrder(milestones), milestoneId, taskId, 1, FALSE)

\* lines 140-150: locked = false on every task with nextTask's ids;
\* positions are the task objects the assignment reaches
UnlockWhere(milestones, nextMilestoneId, nextTaskId, positions) ==
    [i \in 1..Len(milestones) |->
        IF milestones[i].id = nextMilestoneId
        THEN [milestones[i] EXCEPT !.tasks =
                [j \in 1..Len(milestones[i].tasks) |->
                    IF milestones[i].tasks[j].id = nextTaskId /\ <<i, j>> \in positions
                    THEN [milestones[i].tasks[j] EXCEPT !.locked = FALSE]
                    ELSE milestones[i].tasks[j]]]
        ELSE milestones[i]]

UnlockNextTask(milestones, nextMilestoneId, nextTaskId) ==
    UnlockWhere(milestones, nextMilestoneId, nextTaskId, Positions(milestones))

\* lines 104-151: updatedMilestones as it is when the progress is counted
UpdatedMilestones(milestones, milestoneId, taskId) ==
    LET current == FindCurrentTask(milestones, milestoneId, taskId)
        order == GlobalOrder(milestones)
        isMarkingAsDone == ~TaskAt(milestones, order[current]).done
        flipped == FlipDone(milestones, milestoneId, taskId)
        next == FindNextTask(flipped, milestoneId, taskId)
    IN IF isMarkingAsDone /\ next # 0
       THEN UnlockNextTask(flipped, flipped[order[next][1]].id, TaskAt(flipped, order[next]).id)
       ELSE flipped

\* The map copies only the milestones and tasks it changes: every other task
\* object of updatedMilestones is the object held by the project state, so
\* the assignment of line 145 writes into the state the call read.
StateAfterCall(milestones, milestoneId, taskId) ==
    LET current == FindCurrentTask(milestones, milestoneId, taskId)
        order == GlobalOrder(milestones)
        isMarkingAsDone == ~TaskAt(milestones, order[current]).done
        flipped == FlipDone(milestones, milestoneId, taskId)
        next == FindNextTask(flipped, milestoneId, taskId)
        shared == {p \in Positions(milestones) :
                      ~(milestones[p[1]].id = milestoneId /\ TaskAt(milestones, p).id = taskId)}
    IN IF isMarkingAsDone /\ next # 0
       THEN UnlockWhere(milestones, flipped[order[next][1]].id,
                        TaskAt(flipped, order[next]).id, shared)
       ELSE milestones

\* the guard without its test of currentTask.locked
ProceedsOnLocked(tab, milestoneId, taskId) ==
    /\ project[tab] # Null
    /\ HasMilestones(project[tab].roadmap)
    /\ FindCurrentTask(project[tab].roadmap.milestones, milestoneId, taskId) # 0

\* lines 88-102: the call goes on to the update
Proceeds(tab, milestoneId, taskId) ==
    /\ project[tab] # Null
    /\ HasMilestones(project[tab].roadmap)
    /\ LET milestones == project[tab].roadmap.milestones
           current == FindCurrentTask(milestones, milestoneId, taskId)
       IN current # 0 /\ ~TaskAt(milestones, GlobalOrder(milestones)[current]).locked

\* an update that carries the milestones and leaves the counters to a later one
UpdateDocMilestonesOnly(stored, updatedMilestones, progress) ==
    [stored EXCEPT !.roadmap.milestones = updatedMilestones]

\* lines 165-172: one updateDoc with the milestones and the three counters
UpdateDoc(stored, updatedMilestones, progress) ==
    [stored EXCEPT !.roadmap.milestones = updatedMilestones, !.progress = progress]

toggleTaskDone(tab, milestoneId, taskId) ==
    /\ doc # NoDoc
    /\ LET wrote == Proceeds(tab, milestoneId, taskId)
       IN /\ IF wrote
             THEN LET milestones == project[tab].roadmap.milestones
                      updatedMilestones == UpdatedMilestones(milestones, milestoneId, taskId)
                  IN /\ doc' = UpdateDoc(doc, updatedMilestones,
                                         CalculateProgress(updatedMilestones))
                     /\ project' = [project EXCEPT ![tab].roadmap.milestones =
                                        StateAfterCall(milestones, milestoneId, taskId)]
             ELSE UNCHANGED <<doc, project>>
          /\ lastOp' = [op |-> "toggle", tab |-> tab, milestoneId |-> milestoneId,
                        taskId |-> taskId, wrote |-> wrote,
                        stale |-> wrote /\ project[tab].roadmap # doc.roadmap]
    /\ everDone' = everDone \cup DoneIn(doc')
    /\ UNCHANGED <<progressIn, progressOut, jsonText, responseText, cleanedText, generated, chat>>

\* lines 456-480: the page draws one checkbox per task of its project state,
\* each calling toggleTaskDone(milestone.id, task.id)
Checkboxes(tab) ==
    IF project[tab] = Null \/ ~HasMilestones(project[tab].roadmap) THEN {}
    ELSE LET milestones == project[tab].roadmap.milestones
             order == GlobalOrder(milestones)
         IN {<<milestones[order[k][1]].id, TaskAt(milestones, order[k]).id>> :
                k \in 1..Len(order)}

\* every milestone id paired with every task id of the stored document
StoredIds ==
    IF doc = NoDoc \/ ~HasMilestones(doc.roadmap) THEN {}
    ELSE LET milestones == doc.roadmap.milestones
             order == GlobalOrder(milestones)
         IN {milestones[i].id : i \in 1..Len(milestones)}
                \X {TaskAt(milestones, order[k]).id : k \in 1..Len(order)}

Next ==
    \/ \E route \in Routes, hasProfile, hasKey \in BOOLEAN, outcome \in ModelOutcomes :
          handleSelectProject(route, hasProfile, hasKey, outcome)
    \/ \E tab \in Tabs : onSnapshot(tab)
    \/ \E tab \in Tabs : \E ids \in Checkboxes(tab) :
          toggleTaskDone(tab, ids[1], ids[2])

Spec == Init /\ [][Next]_vars

(***************************************************************************)
(* toggleTaskDone called with any ids.  Line 87: the two parameters are    *)
(* any strings.  One page calls it with the pairs of its checkboxes and    *)
(* with every other pair of ids of the stored document, also while its     *)
(* project state is still null.                                            *)
(***************************************************************************)
NextCalls ==
    \/ \E route \in Routes, hasProfile, hasKey \in BOOLEAN, outcome \in ModelOutcomes :
          handleSelectProject(route, hasProfile, hasKey, outcome)
    \/ onSnapshot("tabA")
    \/ \E ids \in Checkboxes("tabA") \cup StoredIds :
          toggleTaskDone("tabA", ids[1], ids[2])

SpecCalls == Init /\ [][NextCalls]_vars

(***************************************************************************)
(* The progress computation on its own: the updatedMilestones a completing *)
(* toggle counts when the first c of t tasks are done.                     *)
(***************************************************************************)
ProgressRoadmap(t, c) ==
    [milestones |-> <<Milestone(1, [j \in 1..t |-> Task(j, j <= c, j > c + 1)])>>]

InitProgress ==
    /\ doc = NoDoc
    /\ project = [t \in Tabs |-> Null]
    /\ lastOp = [op |-> "none"]
    /\ \E t \in 1..MaxProgressTasks : \E c \in 0..t : progressIn = ProgressRoadmap(t, c)
    /\ progressOut = Null
    /\ jsonText = Null
    /\ responseText = Null
    /\ cleanedText = Null
    /\ generated = Null
    /\ everDone = {}
    /\ chat = [t \in Tabs |-> NoChat]

calculateProgress ==
    /\ progressIn # Null
    /\ progressOut = Null
    /\ progressOut' = CalculateProgress(progressIn.milestones)
    /\ UNCHANGED <<doc, project, lastOp, progressIn, jsonText, responseText, cleanedText,
                   generated, everDone, chat>>

NextProgress == calculateProgress

SpecProgress == InitProgress /\ [][NextProgress]_vars

(***************************************************************************)
(* The fence stripping on its own: the model's text is a JSON text between *)
(* an opening fence and the closing one.                                   *)
(***************************************************************************)
InitFence ==
    /\ doc = NoDoc
    /\ project = [t \in Tabs |-> Null]
    /\ lastOp = [op |-> "none"]
    /\ progressIn = Null
    /\ progressOut = Null
    /\ \E text \in JsonTexts : \E fence \in Fences :
          /\ jsonText = [text |-> text]
          /\ responseText = [text |-> Fenced(fence, text)]
    /\ cleanedText = Null
    /\ generated = Null
    /\ everDone = {}
    /\ chat = [t \in Tabs |-> NoChat]

stripFences ==
    /\ responseText # Null
    /\ cleanedText = Null
    /\ cleanedText' = [text |-> CleanText(responseText.text)]
    /\ UNCHANGED <<doc, project, lastOp, progressIn, progressOut, jsonText, responseText,
                   generated, everDone, chat>>

NextFence == stripFences

SpecFence == InitFence /\ [][NextFence]_vars

(***************************************************************************)
(* The chat of the project page: sendChatMessage, lines 175-222, and       *)
(* getCurrentMilestone, lines 224-231.                                     *)
(*                                                                         *)
(* The handlers of a page read the state of the render they were created   *)
(* in (closure).  React renders again before it returns from a key or      *)
(* click event whose handler set state, so after setChatInput and after    *)
(* the synchronous part of sendChatMessage the handlers read the new       *)
(* state; what is set after an await is rendered by a later task (render). *)
(***************************************************************************)
MaxChatMessages == 4

\* what the user can have in the input field
ChatTexts == {<<>>, <<"SP">>, <<"h">>, <<"SP", "h">>}

\* how the promise chain of lines 190-216 ends
SettleOutcomes == {"ok", "fetchRejects", "jsonRejects", "addDocRejects"}

\* the roadmap of a project with the given task counts whose first c tasks
\* have been completed in order
ChatRoadmap(shape, c) ==
    [milestones |->
        [i \in 1..Len(shape) |->
            Milestone(i, [j \in 1..shape[i] |->
                LET g == TasksBefore(shape, i) + j
                IN Task(g, g <= c, g > c + 1)])]]

\* the documents the page can have received from its listener: as generated
\* when nothing has been completed, as the last toggle wrote them otherwise
ChatProject(shape, c) ==
    IF c = 0
    THEN ProjectData(ChatRoadmap(shape, 0), SumSeq(shape))
    ELSE [roadmap |-> ChatRoadmap(shape, c),
          progress |-> CalculateProgress(ChatRoadmap(shape, c).milestones)]

ChatProjects ==
    {ChatProject(x[1], x[2]) :
        x \in {y \in Shapes \X (0..MaxTotalTasks) : y[2] <= SumSeq(y[1])}}

\* line 227: milestone.tasks.some(t => !t.done)
HasIncompleteTasks(milestone) ==
    \E j \in 1..Len(milestone.tasks) : ~milestone.tasks[j].done

\* lines 226-229: the loop over the milestones from index i
RECURSIVE FirstIncompleteFrom(_, _)
FirstIncompleteFrom(milestones, i) ==
    IF i > Len(milestones) THEN 0
    ELSE IF HasIncompleteTasks(milestones[i]) THEN i
    ELSE FirstIncompleteFrom(milestones, i + 1)

\* lines 224-231; milestones[-1] of an empty array is undefined
getCurrentMilestone(tab) ==
    IF project[tab] = Null THEN Null
    ELSE LET milestones == project[tab].roadmap.milestones
             found == FirstIncompleteFrom(milestones, 1)
         IN IF found # 0 THEN milestones[found]
            ELSE IF Len(milestones) = 0 THEN Undefined
            ELSE milestones[Len(milestones)]

\* the state the handlers of the next event read when it has been rendered
Rendered(c) == [chatInput |-> c.chatInput, chatLoading |-> c.chatLoading]

\* a guard that does not look at chatLoading
SendsWhileLoading(tab) ==
    /\ Trim(chat[tab].closure.chatInput) # <<>>
    /\ project[tab] # Null

\* line 176, negated: the call goes on to the request
Sends(tab) ==
    /\ Trim(chat[tab].closure.chatInput) # <<>>
    /\ project[tab] # Null
    /\ ~chat[tab].closure.chatLoading

InitChat ==
    /\ \E p \in ChatProjects \cup {Null} :
          /\ doc = IF p = Null THEN NoDoc ELSE p
          /\ project = [t \in Tabs |-> IF t = "tabA" THEN p ELSE Null]
    /\ lastOp = [op |-> "none"]
    /\ progressIn = Null
    /\ progressOut = Null
    /\ jsonText = Null
    /\ responseText = Null
    /\ cleanedText = Null
    /\ generated = Null
    /\ everDone = {}
    /\ chat = [t \in Tabs |-> NoChat]

\* line 608: onChange of the input field
setChatInput(tab, text) ==
    /\ chat' = [chat EXCEPT ![tab] =
                   LET c == [chat[tab] EXCEPT !.chatInput = text]
                   IN [c EXCEPT !.closure = Rendered(c)]]
    /\ lastOp' = [op |-> "input", tab |-> tab]
    /\ UNCHANGED <<doc, project, progressIn, progressOut, jsonText, responseText,
                   cleanedText, generated, everDone>>

\* lines 175-199, up to the first await; called by Enter in the input field
\* (line 609) and by the button (line 614)
sendChatMessage(tab) ==
    /\ chat[tab].chatMessages + 2 <= MaxChatMessages
    /\ LET sent == Sends(tab)
       IN /\ IF sent
             THEN LET c == [chat[tab] EXCEPT
                               !.chatInput = <<>>,
                               !.chatLoading = TRUE,
                               !.chatMessages = @ + 1,
                               !.inFlight = @ + 1,
                               !.request =
                                   [message |-> Trim(chat[tab].closure.chatInput),
                                    currentMilestone |-> getCurrentMilestone(tab)]]
                  IN chat' = [chat EXCEPT ![tab] = [c EXCEPT !.closure = Rendered(c)]]
             ELSE UNCHANGED chat
          /\ lastOp' = [op |-> "send", tab |-> tab, sent |-> sent]
    /\ UNCHANGED <<doc, project, progressIn, progressOut, jsonText, responseText,
                   cleanedText, generated, everDone>>

\* lines 190-221: the rest of the call, run when the request has settled; the
\* answer is shown unless fetch or response.json() rejected, and finally
\* chatLoading is set to false
settleChatRequest(tab, outcome) ==
    /\ chat[tab].inFlight > 0
    /\ chat' = [chat EXCEPT ![tab] =
                   [@ EXCEPT !.chatMessages =
                                 IF outcome \in {"ok", "addDocRejects"} THEN @ + 1 ELSE @,
                             !.chatLoading = FALSE,
                             !.inFlight = @ - 1]]
    /\ lastOp' = [op |-> "settle", tab |-> tab, outcome |-> outcome]
    /\ UNCHANGED <<doc, project, progressIn, progressOut, jsonText, responseText,
                   cleanedText, generated, everDone>>

\* line 38: the component function runs again with the state set after an await
render(tab) ==
    /\ chat[tab].closure # Rendered(chat[tab])
    /\ chat' = [chat EXCEPT ![tab].closure = Rendered(chat[tab])]
    /\ lastOp' = [op |-> "render", tab |-> tab]
    /\ UNCHANGED <<doc, project, progressIn, progressOut, jsonText, responseText,
                   cleanedText, generated, everDone>>

NextChat ==
    \/ \E text \in ChatTexts : setChatInput("tabA", text)
    \/ sendChatMessage("tabA")
    \/ \E outcome \in SettleOutcomes : settleChatRequest("tabA", outcome)
    \/ render("tabA")

SpecChat == InitChat /\ [][NextChat]_vars

(***************************************************************************)
(* Vocabulary of the properties.                                           *)
(***************************************************************************)
\* the tasks of a milestones array in global order
Tasks(milestones) ==
    LET order == GlobalOrder(milestones)
    IN [k \in 1..Len(order) |-> TaskAt(milestones, order[k])]

\* global indexes of the tasks that carry both ids
WithIds(milestones, milestoneId, taskId) ==
    LET order == GlobalOrder(milestones)
    IN {k \in 1..Len(order) : /\ milestones[order[k][1]].id = milestoneId
                              /\ TaskAt(milestones, order[k]).id = taskId}

Least(S) == CHOOSE k \in S : \A j \in S : k <= j

\* a step is a toggleTaskDone call that went through to its update
IsToggle(op) == op.op = "toggle"
ToggleWrote(op) == op.op = "toggle" /\ op.wrote

\* the call's target in the roadmap the call read: the first task with its ids
Target(milestones, op) == Least(WithIds(milestones, op.milestoneId, op.taskId))

Completes(milestones, op) == ~Tasks(milestones)[Target(milestones, op)].done

\* tasks whose locked goes from true to false between two roadmaps
NewlyUnlocked(before, after) ==
    {k \in 1..Len(Tasks(before)) : Tasks(before)[k].locked /\ ~Tasks(after)[k].locked}

\* the first task after index k that is locked and not done, as a set
FirstLockedAfter(milestones, k) ==
    LET S == {j \in (k + 1)..Len(Tasks(milestones)) :
                 Tasks(milestones)[j].locked /\ ~Tasks(milestones)[j].done}
    IN IF S = {} THEN {} ELSE {Least(S)}

InputOf(op) == project[op.tab].roadmap.milestones

(***************************************************************************)
(* C1.  When toggleTaskDone completes a task, the tasks it unlocks are     *)
(* exactly the first task after the completed one, in global order, that   *)
(* was locked and not done (none when there is no such task), also when    *)
(* that task is in a later milestone.                                      *)
(***************************************************************************)
C1_UnlocksFirstLockedAfter ==
    [][(ToggleWrote(lastOp') /\ Completes(InputOf(lastOp'), lastOp'))
        => NewlyUnlocked(InputOf(lastOp'), doc'.roadmap.milestones)
           = FirstLockedAfter(InputOf(lastOp'), Target(InputOf(lastOp'), lastOp'))]_vars

(***************************************************************************)
(* C2.  For every roadmap generation accepts, one completion changes       *)
(* locked from true to false on at most one task.                          *)
(***************************************************************************)
C2_AtMostOneUnlock ==
    [][(ToggleWrote(lastOp') /\ Completes(InputOf(lastOp'), lastOp'))
        => Cardinality(NewlyUnlocked(InputOf(lastOp'), doc'.roadmap.milestones)) <= 1]_vars

(***************************************************************************)
(* C3.  toggleTaskDone on a locked task issues no write and leaves the     *)
(* stored document and the page's project state as they were.              *)
(***************************************************************************)
TargetLocked(op) ==
    /\ project[op.tab] # Null
    /\ HasMilestones(project[op.tab].roadmap)
    /\ WithIds(InputOf(op), op.milestoneId, op.taskId) # {}
    /\ Tasks(InputOf(op))[Target(InputOf(op), op)].locked

C3_LockedToggleIsNoOp ==
    [][(IsToggle(lastOp') /\ TargetLocked(lastOp'))
        => (~lastOp'.wrote /\ doc' = doc /\ project' = project)]_vars

\* a call on a locked task has returned
C3_Witness == IsToggle(lastOp) /\ TargetLocked(lastOp) /\ ~lastOp.wrote

(***************************************************************************)
(* C4.  Once a project is generated, in every state any toggles lead to,   *)
(* exactly one task of the stored roadmap is unlocked and not done.        *)
(***************************************************************************)
UnlockedNotDone(milestones) ==
    {k \in 1..Len(Tasks(milestones)) :
        ~Tasks(milestones)[k].locked /\ ~Tasks(milestones)[k].done}

C4_ExactlyOneOpenTask ==
    (doc # NoDoc /\ TotalTasks(doc.roadmap) > 0)
        => Cardinality(UnlockedNotDone(doc.roadmap.milestones)) = 1

(***************************************************************************)
(* C5.  Over any sequence of toggles on a project, a task of the stored    *)
(* roadmap that is unlocked is never locked again.                         *)
(***************************************************************************)
C5_NeverRelocked ==
    [][(doc # NoDoc /\ HasMilestones(doc.roadmap))
        => \A k \in 1..Len(Tasks(doc.roadmap.milestones)) :
              ~Tasks(doc.roadmap.milestones)[k].locked
                  => ~Tasks(doc'.roadmap.milestones)[k].locked]_vars

(***************************************************************************)
(* C6.  When toggleTaskDone un-completes a task, the roadmap it writes     *)
(* differs from the one it read in that task's done flag alone: every      *)
(* locked flag and every other done flag is as before.                     *)
(***************************************************************************)
C6_UncompleteFlipsDoneOnly ==
    [][(ToggleWrote(lastOp') /\ ~Completes(InputOf(lastOp'), lastOp'))
        => LET before == Tasks(InputOf(lastOp'))
               after == Tasks(doc'.roadmap.milestones)
               target == Target(InputOf(lastOp'), lastOp')
           IN /\ ~after[target].done
              /\ \A k \in 1..Len(before) :
                    /\ after[k].locked = before[k].locked
                    /\ k # target => after[k].done = before[k].done]_vars

(***************************************************************************)
(* C7.  Toggles on one project are atomic with respect to each other: a    *)
(* toggle's write keeps what the stored roadmap holds for every task other *)
(* than its target, so no completion and no unlock of another toggle is    *)
(* lost.                                                                   *)
(***************************************************************************)
C7_NoLostUpdate ==
    [][ToggleWrote(lastOp')
        => LET stored == Tasks(doc.roadmap.milestones)
               written == Tasks(doc'.roadmap.milestones)
               targets == WithIds(doc.roadmap.milestones,
                                  lastOp'.milestoneId, lastOp'.taskId)
           IN \A k \in 1..Len(stored) :
                 /\ k \notin targets => written[k].done = stored[k].done
                 /\ ~stored[k].locked => ~written[k].locked]_vars

(***************************************************************************)
(* C8.  The progress a toggle stores has completedTasks = the number of    *)
(* done tasks, totalTasks = the number of tasks, 0 <= completedTasks <=    *)
(* totalTasks, and progressPercent an integer in 0..100 equal to           *)
(* round(100 * completedTasks / totalTasks), 0 when totalTasks = 0.        *)
(***************************************************************************)
\* round(100 * c / t) over the rationals, halves upwards
RoundedPercent(c, t) == IF t = 0 THEN 0 ELSE (200 * c + t) \div (2 * t)

C8_ProgressIsRoundedPercent ==
    progressOut # Null =>
        LET tasks == Tasks(progressIn.milestones)
            completed == Cardinality({k \in 1..Len(tasks) : tasks[k].done})
        IN /\ progressOut.completedTasks = completed
           /\ progressOut.totalTasks = Len(tasks)
           /\ 0 <= progressOut.completedTasks
           /\ progressOut.completedTasks <= progressOut.totalTasks
           /\ progressOut.progressPercent \in 0..100
           /\ progressOut.progressPercent = RoundedPercent(completed, Len(tasks))

(***************************************************************************)
(* C9.  A toggle persists the new roadmap and the progress computed from   *)
(* it in one update: no step of a toggle changes the stored roadmap        *)
(* without storing, in the same step, the progress counted from it.        *)
(***************************************************************************)
C9_RoadmapAndProgressTogether ==
    [][(ToggleWrote(lastOp') /\ doc'.roadmap # doc.roadmap)
        => doc'.progress = CalculateProgress(doc'.roadmap.milestones)]_vars

\* a toggle has stored a roadmap together with a progress that counts a done task
C9_Witness ==
    /\ ToggleWrote(lastOp)
    /\ doc.progress.completedTasks > 0
    /\ doc.progress = CalculateProgress(doc.roadmap.milestones)

(***************************************************************************)
(* C10.  In every roadmap a successful create-project request returns, the *)
(* first task of the first milestone is unlocked and every other task is   *)
(* locked and not done, whatever flags the model's response carried.       *)
(***************************************************************************)
C10_OnlyFirstTaskUnlocked ==
    (lastOp.op = "create" /\ lastOp.wrote /\ HasMilestones(doc.roadmap))
        => LET tasks == Tasks(doc.roadmap.milestones)
           IN \A k \in 1..Len(tasks) :
                 IF k = 1 THEN ~tasks[k].locked
                 ELSE tasks[k].locked /\ ~tasks[k].done

(***************************************************************************)
(* Vocabulary of the properties about create-project.                      *)
(***************************************************************************)
IsCreate(op) == op.op = "create"

\* the request reached the model and the model's text parsed to op.parsed
Parsed(op) == IsCreate(op) /\ op.modelCalls > 0 /\ op.parsed # Undefined

Rejected(op) == op.response.status # 200 /\ "error" \in DOMAIN op.response

\* the error of the one catch block, which names no stage and no violation
GenericError == "Failed to create project"

(***************************************************************************)
(* C11.  A request whose model response parses to a roadmap with an empty  *)
(* milestones array is answered with an error that names the violation,    *)
(* and no project data with totalTasks = 0 is produced.                    *)
(***************************************************************************)
C11_EmptyMilestonesRejected ==
    [][(Parsed(lastOp') /\ HasMilestones(lastOp'.parsed)
            /\ lastOp'.parsed.milestones = <<>>)
        => /\ Rejected(lastOp')
           /\ lastOp'.response.error # GenericError
           /\ doc' = NoDoc]_vars

(***************************************************************************)
(* C12.  Every roadmap create-project accepts has at least one task in     *)
(* each of its milestones: a parsed roadmap in which any milestone, the    *)
(* first or a later one, has no tasks is rejected.                         *)
(***************************************************************************)
C12_NoEmptyMilestoneAccepted ==
    [][(Parsed(lastOp') /\ HasMilestones(lastOp'.parsed)
            /\ \E i \in 1..Len(lastOp'.parsed.milestones) :
                  lastOp'.parsed.milestones[i].tasks = <<>>)
        => Rejected(lastOp') /\ doc' = NoDoc]_vars

\* ids of all tasks of a roadmap, in global order
TaskIdsOf(milestones) == [k \in 1..Len(Tasks(milestones)) |-> Tasks(milestones)[k].id]

(***************************************************************************)
(* C13.  Every roadmap create-project accepts has task ids that are unique *)
(* within the project and sequential across milestones (t1, t2, ...): a    *)
(* parsed roadmap with duplicated or non-sequential task ids is rejected.  *)
(***************************************************************************)
C13_TaskIdsUniqueAndSequential ==
    [][(Parsed(lastOp') /\ HasMilestones(lastOp'.parsed)
            /\ TaskIdsOf(lastOp'.parsed.milestones)
                   # [k \in 1..Len(Tasks(lastOp'.parsed.milestones)) |-> k])
        => Rejected(lastOp') /\ doc' = NoDoc]_vars

\* the stage of a request at which the model's outcome makes generation fail:
\* the model call (it throws or returns no text), the parse of its text, or
\* the validation of what the text parsed to
FailedStage(op) ==
    CASE op.outcome \in {"throws", "empty"} -> "request"
      [] op.outcome = "notJson" -> "parse"
      [] OTHER -> "validate"

\* the errors by which the routes report each stage
StageErrors(stage) ==
    CASE stage = "request" -> {"AI service error", "AI returned empty response"}
      [] stage = "parse" -> {"AI returned invalid JSON format"}
      [] OTHER -> {"Invalid roadmap structure", "Invalid roadmap"}

(***************************************************************************)
(* C14.  A create-project request that called the model and failed reports *)
(* the stage that failed: its error is one of the errors of that stage     *)
(* (model call failed or empty, text not parseable, parsed roadmap not     *)
(* valid), which no other stage uses, and never the generic error.         *)
(***************************************************************************)
C14_ErrorNamesStage ==
    [][(IsCreate(lastOp') /\ lastOp'.modelCalls > 0 /\ Rejected(lastOp'))
        => lastOp'.response.error \in StageErrors(FailedStage(lastOp'))]_vars

(***************************************************************************)
(* C15.  When create-project answers a request with a failure, whichever   *)
(* stage failed (missing field, model call, parse, validation), the step   *)
(* of handleSelectProject adds no project document: the store has a        *)
(* document after the step only if the response had status 200 and carried *)
(* projectData.                                                            *)
(***************************************************************************)
C15_NoDocumentOnFailure ==
    [][(IsCreate(lastOp') /\ lastOp'.response.status # 200)
        => doc = NoDoc /\ doc' = NoDoc]_vars

\* a request rejected at the validation stage left the store empty
C15_Witness ==
    /\ Parsed(lastOp)
    /\ Rejected(lastOp)
    /\ lastOp.response.error = "Invalid roadmap structure"
    /\ doc = NoDoc

(***************************************************************************)
(* C16.  toggleTaskDone does not modify the roadmap it read: a call leaves *)
(* the project state of its page, and of every other page, as it was, done *)
(* and locked of every task included; what the call computed is in the     *)
(* written document only.                                                  *)
(***************************************************************************)
C16_ToggleLeavesStateItRead ==
    [][IsToggle(lastOp') => project' = project]_vars

\* index in global order of the first task that is not done, 0 when all are
HeadOf(milestones) ==
    LET open == {k \in 1..Len(Tasks(milestones)) : ~Tasks(milestones)[k].done}
    IN IF open = {} THEN 0 ELSE Least(open)

(***************************************************************************)
(* C17.  In every state of a stored project, after generation and after    *)
(* any sequence of toggles, in which some task is not done, the first task *)
(* in global order that is not done (the head) is unlocked.                *)
(***************************************************************************)
C17_HeadUnlocked ==
    (doc # NoDoc /\ HasMilestones(doc.roadmap) /\ HeadOf(doc.roadmap.milestones) # 0)
        => ~Tasks(doc.roadmap.milestones)[HeadOf(doc.roadmap.milestones)].locked

C19_AtMostOneModelCall ==
    [][IsCreate(lastOp')
        => /\ lastOp'.modelCalls <= 1
           /\ ~lastOp'.hasFields => lastOp'.modelCalls = 0]_vars

\* a request whose one model call failed has been answered
C19_Witness ==
    /\ IsCreate(lastOp)
    /\ lastOp.hasFields
    /\ lastOp.outcome = "throws"
    /\ lastOp.modelCalls = 1
    /\ Rejected(lastOp)

(***************************************************************************)
(* C20.  For every JSON text J, the fence stripping applied to J between   *)
(* a line of three backticks and json, or of three backticks alone, and a   *)
(* closing line of three backticks yields text                             *)
(* that JSON.parse maps to the value it maps J itself to.                  *)
(***************************************************************************)
C20_FencedParsesAsBare ==
    cleanedText # Null => JsonParse(cleanedText.text) = JsonParse(jsonText.text)

\* a JSON text that holds backticks and was wrapped in a bare fence
C20_Witness ==
    /\ cleanedText # Null
    /\ StartsWith(responseText.text, Backticks \o <<"LF">>)
    /\ jsonText.text = <<"QUOTE", "TICK", "TICK", "QUOTE">>
    /\ JsonParse(jsonText.text).type = "string"
    /\ cleanedText.text = jsonText.text

(***************************************************************************)
(* Vocabulary of the properties about whole runs.                          *)
(***************************************************************************)
\* global indexes of the unlocked tasks
UnlockedIn(milestones) ==
    {k \in 1..Len(Tasks(milestones)) : ~Tasks(milestones)[k].locked}

\* the document was generated with the first task unlocked and no other
GeneratedFirstOnly ==
    /\ generated # Null
    /\ HasMilestones(generated.roadmap)
    /\ UnlockedIn(generated.roadmap.milestones) = {1}

IsPrefix(S) == \A k \in S : \A j \in 1..k : j \in S

(***************************************************************************)
(* C21.  In every state reached by toggles from a generated roadmap in     *)
(* which only the first task is unlocked, the unlocked tasks of the stored *)
(* roadmap are a prefix of the global task order.                          *)
(***************************************************************************)
C21_UnlockedIsPrefix ==
    GeneratedFirstOnly => IsPrefix(UnlockedIn(doc.roadmap.milestones))

\* the document was generated with no task done
GeneratedNoneDone ==
    /\ generated # Null
    /\ HasMilestones(generated.roadmap)
    /\ DoneIn(generated) = {}

(***************************************************************************)
(* C23.  In every state reached from a generated roadmap in which no task  *)
(* is done, no task of the stored roadmap is both locked and done.         *)
(***************************************************************************)
C23_NoLockedDoneTask ==
    GeneratedNoneDone
        => \A k \in 1..Len(Tasks(doc.roadmap.milestones)) :
              ~(Tasks(doc.roadmap.milestones)[k].locked /\ Tasks(doc.roadmap.milestones)[k].done)

\* no two tasks of the roadmap have the same milestone id and task id
DistinctIds(milestones) ==
    \A a, b \in Positions(milestones) :
        (milestones[a[1]].id = milestones[b[1]].id
            /\ TaskAt(milestones, a).id = TaskAt(milestones, b).id) => a = b

\* the document was generated as the prompt asks
GeneratedAsInstructed ==
    /\ GeneratedFirstOnly
    /\ GeneratedNoneDone
    /\ DistinctIds(generated.roadmap.milestones)

(***************************************************************************)
(* C22.  A toggle stores a task as done, which was not stored as done      *)
(* before, only if every task before it in global order has been stored as *)
(* done at some earlier point.  Stated for the roadmaps generated as the   *)
(* prompt asks: first task unlocked alone, nothing done, distinct ids.     *)
(***************************************************************************)
C22_DoneOnlyAfterEarlierTasks ==
    [][(ToggleWrote(lastOp') /\ GeneratedAsInstructed)
        => \A k \in DoneIn(doc') \ DoneIn(doc) : \A j \in 1..(k - 1) : j \in everDone]_vars

(***************************************************************************)
(* C24.  The progressPercent a toggle stores is 100 if and only if every   *)
(* task of the roadmap it stores is done, whatever the number of tasks.    *)
(***************************************************************************)
C24_HundredIffAllDone ==
    progressOut # Null =>
        LET tasks == Tasks(progressIn.milestones)
        IN progressOut.progressPercent = 100 <=> \A k \in 1..Len(tasks) : tasks[k].done

SameStructure(before, after) ==
    /\ Len(after) = Len(before)
    /\ \A i \in 1..Len(before) :
          /\ after[i].id = before[i].id
          /\ Len(after[i].tasks) = Len(before[i].tasks)
          /\ \A j \in 1..Len(before[i].tasks) : after[i].tasks[j].id = before[i].tasks[j].id

\* global indexes of the tasks whose done, respectively locked, differs
DoneChanged(before, after) ==
    {k \in 1..Len(Tasks(before)) : Tasks(after)[k].done # Tasks(before)[k].done}

LockedChanged(before, after) ==
    {k \in 1..Len(Tasks(before)) : Tasks(after)[k].locked # Tasks(before)[k].locked}

(***************************************************************************)
(* C26.  A toggle that writes stores the roadmap it read with the same     *)
(* milestones, tasks and ids in the same order, with done changed on the   *)
(* targeted task alone and locked changed on at most one other task, and   *)
(* with totalTasks equal to the value set at generation.                   *)
(***************************************************************************)
C26_ToggleFrame ==
    [][ToggleWrote(lastOp')
        => LET before == InputOf(lastOp')
               after == doc'.roadmap.milestones
               target == Target(before, lastOp')
           IN /\ SameStructure(before, after)
              /\ DoneChanged(before, after) = {target}
              /\ Cardinality(LockedChanged(before, after)) <= 1
              /\ target \notin LockedChanged(before, after)
              /\ doc'.progress.totalTasks = generated.progress.totalTasks]_vars

\* the roadmap has a task with this task id inside a milestone with this milestone id
HasTask(milestones, milestoneId, taskId) ==
    \E i \in 1..Len(milestones) :
        /\ milestones[i].id = milestoneId
        /\ \E j \in 1..Len(milestones[i].tasks) : milestones[i].tasks[j].id = taskId

\* the call found no project state, or no such task in the project state
NothingToToggle(op) ==
    \/ project[op.tab] = Null
    \/ ~HasMilestones(project[op.tab].roadmap)
    \/ ~HasTask(InputOf(op), op.milestoneId, op.taskId)

(***************************************************************************)
(* C27.  toggleTaskDone issues no write when the project is not loaded or  *)
(* when the milestone with the given id has no task with the given task    *)
(* id, also when a task with that id exists in another milestone.          *)
(***************************************************************************)
C27_NoWriteWithoutTask ==
    [][(IsToggle(lastOp') /\ NothingToToggle(lastOp'))
        => (~lastOp'.wrote /\ doc' = doc)]_vars

\* a call that named an unlocked task of the page's roadmap together with
\* another milestone of it, and wrote nothing
C27_Witness ==
    /\ IsToggle(lastOp)
    /\ ~lastOp.wrote
    /\ project[lastOp.tab] # Null
    /\ HasMilestones(project[lastOp.tab].roadmap)
    /\ ~HasTask(InputOf(lastOp), lastOp.milestoneId, lastOp.taskId)
    /\ \E k \in 1..Len(Tasks(InputOf(lastOp))) :
          /\ Tasks(InputOf(lastOp))[k].id = lastOp.taskId
          /\ ~Tasks(InputOf(lastOp))[k].locked
    /\ \E i \in 1..Len(InputOf(lastOp)) : InputOf(lastOp)[i].id = lastOp.milestoneId

\* a call on a page whose project state was null, and nothing was written
C27_WitnessNotLoaded ==
    /\ IsToggle(lastOp)
    /\ ~lastOp.wrote
    /\ project[lastOp.tab] = Null

\* indexes of the milestones with at least one task that is not done
OpenMilestones(milestones) ==
    {i \in 1..Len(milestones) :
        \E j \in 1..Len(milestones[i].tasks) : ~milestones[i].tasks[j].done}

(***************************************************************************)
(* C28.  The current milestone a chat request carries is the first         *)
(* milestone of the page's roadmap with at least one task that is not      *)
(* done, and the last milestone when every task of every milestone is      *)
(* done.                                                                   *)
(***************************************************************************)
C28_CurrentMilestone ==
    \A tab \in Tabs :
        chat[tab].request # NoRequest
            => LET milestones == project[tab].roadmap.milestones
                   open == OpenMilestones(milestones)
                   current == chat[tab].request.currentMilestone
               IN IF open # {}
                  THEN current = milestones[Least(open)]
                  ELSE Len(milestones) > 0 /\ current = milestones[Len(milestones)]

(***************************************************************************)
(* C29.  A page never has two chat requests in flight and chatLoading is   *)
(* true exactly while one is; a sendChatMessage while chatLoading is true  *)
(* changes nothing; and chatLoading is false after every request has       *)
(* settled, whether it succeeded or failed.                                *)
(***************************************************************************)
C29_OneRequestInFlight ==
    /\ [](\A tab \in Tabs :
            /\ chat[tab].inFlight <= 1
            /\ chat[tab].chatLoading <=> chat[tab].inFlight = 1)
    /\ [][(lastOp'.op = "send" /\ chat[lastOp'.tab].chatLoading)
            => (~lastOp'.sent /\ chat' = chat)]_vars
    /\ [][lastOp'.op = "settle" => ~chat'[lastOp'.tab].chatLoading]_vars

\* the user typed a second message while the first request was in flight,
\* and the send was ignored
C29_Witness ==
    /\ lastOp.op = "send"
    /\ ~lastOp.sent
    /\ chat[lastOp.tab].chatLoading
    /\ chat[lastOp.tab].inFlight = 1
    /\ Trim(chat[lastOp.tab].chatInput) # <<>>

\* a request that failed has settled and the page can send again
C29_WitnessFailed ==
    /\ lastOp.op = "settle"
    /\ lastOp.outcome # "ok"
    /\ ~chat[lastOp.tab].chatLoading
    /\ chat[lastOp.tab].inFlight = 0

====
